---- MODULE Spec2Model ----
(***************************************************************************)
(* A model of the two recipe scripts of the repository:                    *)
(*   recipes/AMI/Diarization/experiment.py  (the AMI diarization driver)   *)
(*   recipes/minimal_examples/.../example_complex_asr_ctc_experiment.py    *)
(*                                                                         *)
(* Python values are modelled as follows.  None is the empty tuple and a   *)
(* present value v is <<v>> (Some(v)).  Strings that the code takes apart  *)
(* (the first column of a csv row) are sequences of character codes.       *)
(* p-values are counted in thousandths, AHC thresholds in tenths.  A DER   *)
(* is a natural number drawn from 0..MaxDER by the scoring call.           *)
(***************************************************************************)
EXTENDS Integers, Sequences, FiniteSets, TLC

VARIABLES
    params,      \* the hyperparameter dictionary read from the YAML file
    dirs,        \* which of the three important directories exist
    pc,          \* position of the main script
    error_log,   \* messages passed to logger.error
    loaded,      \* the pretrained embedding model has been loaded
    full_csv,    \* main's full_csv (rows of the csv read last)
    best_nn,     \* main's best_nn
    n_lambdas,   \* main's n_lambdas
    best_pval,   \* main's best_pval
    DER_list,    \* the running tuner's DER_list
    fs,          \* files below embedding_dir and sys_rttm_dir
    ref_rttm,    \* the reference RTTM files, by split
    runs,        \* history: every diarize_dataset call and what it did
    scores,      \* history: every DER call and the file content it scored
    DER_dev,     \* the dev DER main reports
    DER_eval,    \* the eval DER main reports
    last,        \* history: what the latest diarize_dataset call did
    ctc          \* the CTC example: the brain object and the driver position

vars == <<params, dirs, pc, error_log, loaded, full_csv, best_nn, n_lambdas,
          best_pval, DER_list, fs, ref_rttm, runs, scores, DER_dev, DER_eval, last, ctc>>

mainVars == <<params, dirs, pc, error_log, loaded, full_csv, best_nn, n_lambdas,
              best_pval, DER_list, fs, ref_rttm, runs, scores, DER_dev, DER_eval,
              last>>

-----------------------------------------------------------------------------
(* Bounds of the model *)

\* DER values range over 0..MaxDER
MaxDER == 1
\* params["max_num_spkrs"] ranges over 0..MaxSpkrs
MaxSpkrs == 2
\* a csv handed to diarize_dataset has at most MaxRows rows (header included)
MaxRows == 3
\* number of successive diarize_dataset calls explored in SpecDiarize
MaxCalls == 2
\* number of epochs given to fit in the CTC example ranges over 1..MaxEpochs
MaxEpochs == 2
\* batches per stage in the CTC example range over 0..MaxBatches
MaxBatches == 2
\* stage losses in the CTC example range over 0..MaxLoss
MaxLoss == 2

-----------------------------------------------------------------------------
(* Python values *)

None == <<>>
Some(v) == <<v>>

Min(S) == CHOOSE x \in S : \A y \in S : x <= y

\* min(DER_list) of a non-empty list
ListMin(l) == Min({l[i] : i \in 1..Len(l)})

\* list.index(v): the 0-based position of the first element equal to v
ListIndex(l, v) == Min({i \in 1..Len(l) : l[i] = v}) - 1

\* the element at 0-based position i of a Python sequence
At(l, i) == l[i + 1]

\* the orders in which the elements of S can be listed
RECURSIVE Perms(_)
Perms(S) ==
    IF S = {} THEN {<<>>}
    ELSE UNION {{<<x>> \o p : p \in Perms(S \ {x})} : x \in S}

-----------------------------------------------------------------------------
(* Strings: the first column of a csv row *)

\* "_"
Underscore == 95
\* characters str.rstrip() removes (space, tab)
Whitespace == {32, 9}

\* str.rstrip()
RECURSIVE RStrip(_)
RStrip(s) ==
    IF s = <<>> THEN s
    ELSE IF s[Len(s)] \in Whitespace THEN RStrip(SubSeq(s, 1, Len(s) - 1))
    ELSE s

\* str.split("_")[0]: the part before the first "_", the whole string without one
SplitFirst(s) ==
    LET at == {i \in 1..Len(s) : s[i] = Underscore}
    IN  IF at = {} THEN s ELSE SubSeq(s, 1, Min(at) - 1)

\* Python's order on strings: by code point, a proper prefix first
RECURSIVE StrLess(_, _)
StrLess(s, t) ==
    IF t = <<>> THEN FALSE
    ELSE IF s = <<>> THEN TRUE
    ELSE IF s[1] # t[1] THEN s[1] < t[1]
    ELSE StrLess(Tail(s), Tail(t))

\* list(set).sort(): the elements of S in ascending order
RECURSIVE SortedList(_)
SortedList(S) ==
    IF S = {} THEN <<>>
    ELSE LET m == CHOOSE x \in S : \A y \in S : x = y \/ StrLess(x, y)
         IN  <<m>> \o SortedList(S \ {m})

\* row[0].rstrip().split("_")[0]; a row is modelled by its first column
RecIdOfRow(row) == SplitFirst(RStrip(row))

\* variant: the header row is not dropped
AllRecIds_with_header(csv) ==
    LET A == [i \in 1..Len(csv) |-> RecIdOfRow(csv[i])]
    IN  SortedList({A[i] : i \in 1..Len(A)})

\* A = [...]; all_rec_ids = list(set(A[1:])); all_rec_ids.sort()
AllRecIds(csv) ==
    LET A == [i \in 1..Len(csv) |-> RecIdOfRow(csv[i])]
    IN  SortedList({A[i] : i \in 2..Len(A)})

-----------------------------------------------------------------------------
(* Files.  fs.stat maps <<split, rec_id>> to the statistics object pickled  *)
(* in embedding_dir/AMI_<split>/<rec_id>_xv_stat.pkl, fs.rttm maps          *)
(* <<split, rec_id>> to the content of sys_rttm_dir/AMI_<split>/<rec_id>.rttm *)
(* and fs.sys_output maps a split to the content of its sys_output.rttm.    *)
(* A missing file is outside the domain.                                    *)

NoFiles == [stat |-> <<>>, rttm |-> <<>>, sys_output |-> <<>>]

\* os.path.isfile(stat_file)
IsFile(stat, stat_file) == stat_file \in DOMAIN stat

\* filter(lambda x: x.startswith("SPKR-INFO"), rttm)
SpkrInfo(rttm) == SelectSeq(rttm, LAMBDA x : x.type = "SPKR-INFO")

\* diar.get_oracle_num_spkrs(rec_id, spkr_info): the call's result, kept as the
\* call itself (the routine is outside these files)
get_oracle_num_spkrs(rec_id, spkr_info) ==
    [fn |-> "get_oracle_num_spkrs", rec_id |-> rec_id, spkr_info |-> spkr_info]

\* variant: the embeddings are computed and saved whether or not the file exists
embedding_computation_loop_always(stat, stat_file, computed) ==
    [stat |-> (stat_file :> computed) @@ stat, stat_obj |-> computed,
     iterated |-> TRUE]

\* embedding_computation_loop: the loader is iterated and the object saved only
\* when stat_file is missing; otherwise the pickled object is loaded
embedding_computation_loop(stat, stat_file, computed) ==
    IF ~IsFile(stat, stat_file)
    THEN [stat |-> (stat_file :> computed) @@ stat, stat_obj |-> computed,
          iterated |-> TRUE]
    ELSE [stat |-> stat, stat_obj |-> stat[stat_file], iterated |-> FALSE]

\* variant: without the elif branch, n_lambdas is never used
NumSpkrs_without_elif(prm, rec_id, spkr_info, n_lam) ==
    IF prm.oracle_n_spkrs = "True"
    THEN Some(get_oracle_num_spkrs(rec_id, spkr_info))
    ELSE None

\* the number of speakers handed to the clustering backend (lines 256-265)
NumSpkrs(prm, rec_id, spkr_info, n_lam) ==
    IF prm.oracle_n_spkrs = "True"
    THEN Some(get_oracle_num_spkrs(rec_id, spkr_info))
    ELSE IF prm.affinity = "nn" THEN n_lam
    ELSE None

\* the clustering calls made for one recording (lines 267-288), in order
Clustering(prm, diary_obj, out_rttm_file, rec_id, num_spkrs, pval, n_neighbors) ==
    (IF prm.backend = "kmeans"
     THEN <<[routine |-> "do_kmeans_clustering", diary_obj |-> diary_obj,
             out_rttm_file |-> out_rttm_file, rec_id |-> rec_id,
             num_spkrs |-> num_spkrs, pval |-> pval,
             affinity |-> None, n_neighbors |-> None]>>
     ELSE <<>>)
    \o
    (IF prm.backend = "SC"
     THEN <<[routine |-> "do_spec_clustering", diary_obj |-> diary_obj,
             out_rttm_file |-> out_rttm_file, rec_id |-> rec_id,
             num_spkrs |-> num_spkrs, pval |-> pval,
             affinity |-> Some(prm.affinity), n_neighbors |-> n_neighbors]>>
     ELSE <<>>)
    \o
    (IF prm.backend = "AHC"
     THEN <<[routine |-> "do_AHC", diary_obj |-> diary_obj,
             out_rttm_file |-> out_rttm_file, rec_id |-> rec_id,
             num_spkrs |-> num_spkrs, pval |-> pval,
             affinity |-> None, n_neighbors |-> None]>>
     ELSE <<>>)

\* each clustering routine writes its result to the out_rttm_file it is given
RECURSIVE WriteRttm(_, _)
WriteRttm(rttm, calls) ==
    IF calls = <<>> THEN rttm
    ELSE WriteRttm((calls[1].out_rttm_file :> calls[1]) @@ rttm, Tail(calls))

\* one iteration of the loop over all_rec_ids (lines 203-288); st holds the
\* files, the events so far and the progress counter i
RecStep(st, arg, rec_id) ==
    LET stat_file == <<arg.split_type, rec_id>>
        emb == embedding_computation_loop(st.fs.stat, stat_file,
                   [file |-> stat_file, by |-> arg.serial])
        out_rttm_file == <<arg.split_type, rec_id>>
        num_spkrs == NumSpkrs(arg.prm, rec_id, arg.spkr_info, arg.n_lambdas)
        calls == Clustering(arg.prm, emb.stat_obj, out_rttm_file, rec_id,
                            num_spkrs, arg.pval, arg.n_neighbors)
    IN  [fs |-> [st.fs EXCEPT !.stat = emb.stat,
                              !.rttm = WriteRttm(st.fs.rttm, calls)],
         events |-> Append(st.events,
                      [i |-> st.i, rec_id |-> rec_id, extracted |-> emb.iterated,
                       diary_obj |-> emb.stat_obj, num_spkrs |-> num_spkrs,
                       calls |-> calls]),
         i |-> st.i + 1]

\* for rec_id in tqdm(all_rec_ids)
RECURSIVE RecLoop(_, _, _)
RecLoop(st, arg, recs) ==
    IF recs = <<>> THEN st
    ELSE RecLoop(RecStep(st, arg, recs[1]), arg, Tail(recs))

\* glob.glob(out_rttm_dir + "/*.rttm") without the concatenated file itself
RttmFiles(rttm, split_type) == {f \in DOMAIN rttm : f[1] = split_type}

\* variant: the concatenated file is opened for appending
Concatenate_append(fsys, split_type, order, serial) ==
    LET old == IF split_type \in DOMAIN fsys.sys_output
               THEN fsys.sys_output[split_type].parts ELSE <<>>
    IN  [fsys EXCEPT !.sys_output =
            (split_type :> [by |-> serial,
                            parts |-> old \o [j \in 1..Len(order) |->
                                                fsys.rttm[order[j]]]]) @@ @]

\* lines 295-300: the concatenated file is opened for writing (emptied) and the
\* other RTTM files are copied into it in the order glob lists them
\* (by: the call that wrote the file, kept for the history)
Concatenate(fsys, split_type, order, serial) ==
    [fsys EXCEPT !.sys_output =
        (split_type :> [by |-> serial,
                        parts |-> [j \in 1..Len(order) |-> fsys.rttm[order[j]]]]) @@ @]

\* diarize_dataset(full_csv, split_type, n_lambdas, pval, n_neighbors): the set
\* of its possible outcomes (one per order in which glob may list the files).
\* serial identifies the call in the objects it computes.
diarize_dataset(fsys, prm, ref, csv, split_type, n_lam, pval, n_neighbors, serial) ==
    LET read_ref == prm.oracle_n_spkrs = "True"
        spkr_info == IF read_ref THEN SpkrInfo(ref[split_type]) ELSE <<>>
        all_rec_ids == AllRecIds(csv)
        arg == [prm |-> prm, split_type |-> split_type, n_lambdas |-> n_lam,
                pval |-> pval, n_neighbors |-> n_neighbors,
                spkr_info |-> spkr_info, serial |-> serial]
        end == RecLoop([fs |-> fsys, events |-> <<>>, i |-> 1], arg, all_rec_ids)
        out == [split_type |-> split_type, N |-> Len(all_rec_ids),
                read_ref |-> read_ref, events |-> end.events]
    IN  IF all_rec_ids = <<>>
        \* out_rttm_dir is bound only inside the loop: line 292 raises
        THEN {out @@ [raised |-> TRUE, fs |-> end.fs, ret |-> None]}
        ELSE {out @@ [raised |-> FALSE,
                      fs |-> Concatenate(end.fs, split_type, order, serial),
                      ret |-> Some(split_type)]
                : order \in Perms(RttmFiles(end.fs.rttm, split_type))}

\* what the history keeps of the latest diarize_dataset call: all but the files
Outcome(res) ==
    [split_type |-> res.split_type, N |-> res.N, read_ref |-> res.read_ref,
     events |-> res.events, raised |-> res.raised, ret |-> res.ret]

\* what the history keeps of every diarize_dataset call
RunRecord(caller, res, n_lam, pval, n_neighbors) ==
    [caller |-> caller, split_type |-> res.split_type, n_lambdas |-> n_lam,
     pval |-> pval, n_neighbors |-> n_neighbors, raised |-> res.raised,
     extracted |-> {<<res.split_type, res.events[j].rec_id>> :
                        j \in {k \in 1..Len(res.events) : res.events[k].extracted}}]

-----------------------------------------------------------------------------
(* Inputs *)

\* first columns of csv rows: "ID", "a_0", "b_0" and "a "
ColValues == {<<73, 68>>, <<97, 95, 48>>, <<98, 95, 48>>, <<97, 32>>}

\* the csv files explored by SpecDiarize: at most MaxRows rows
Csvs == UNION {[1..n -> ColValues] : n \in 0..MaxRows}

\* the csv files explored by the main script: a header alone, and one
\* recording in two segments
MainCsvs == {<<<<73, 68>>>>,
             <<<<73, 68>>, <<97, 95, 48>>, <<97, 95, 48>>>>}

\* the reference RTTM of a split, as read by diar.read_rttm: its lines
RefLines == <<[type |-> "SPKR-INFO", rec |-> <<97>>, spk |-> 1],
              [type |-> "SPKR-INFO", rec |-> <<97>>, spk |-> 2],
              [type |-> "SPEAKER", rec |-> <<97>>, spk |-> 1],
              [type |-> "SPEAKER", rec |-> <<98>>, spk |-> 1],
              [type |-> "SPKR-INFO", rec |-> <<98>>, spk |-> 1]>>

RefFiles == {[s \in {"dev", "eval"} |-> RefLines]}

Affinities == {"cos", "nn", "other"}
Backends == {"kmeans", "SC", "AHC", "other"}
\* params["oracle_n_spkrs"]: True, False, or a value that is neither
Oracles == {"True", "False", "other"}

-----------------------------------------------------------------------------
(* The tuners' candidates *)

\* np.arange(0.002, 0.015, 0.001), in thousandths
prange_p == [j \in 1..13 |-> j + 1]
\* np.arange(0.0, 1.0, 0.1), in tenths
prange_threshold == [j \in 1..10 |-> j - 1]
\* range(5, 15)
range_nn == [j \in 1..10 |-> j + 4]
\* range(1, params["max_num_spkrs"] + 1)
range_lambdas(prm) == [j \in 1..prm.max_num_spkrs |-> j]

\* the default of diarize_dataset's n_neighbors
DefaultNeighbors == 10
\* dev_nn_tuner's n_lambdas
NNTunerLambdas == 4

\* variant: a sort that puts the latest of equal keys first
RECURSIVE SortByDER_unstable(_)
SortByDER_unstable(l) ==
    IF l = <<>> THEN l
    ELSE LET m == ListMin([j \in 1..Len(l) |-> l[j][2]])
             k == CHOOSE j \in 1..Len(l) :
                      /\ l[j][2] = m
                      /\ \A h \in 1..Len(l) : l[h][2] = m => h <= j
         IN  <<l[k]>> \o SortByDER_unstable(SubSeq(l, 1, k - 1) \o SubSeq(l, k + 1, Len(l)))

\* list.sort(key=lambda x: x[1]): stable, by the second component
RECURSIVE SortByDER(_)
SortByDER(l) ==
    IF l = <<>> THEN l
    ELSE LET m == ListMin([j \in 1..Len(l) |-> l[j][2]])
             k == Min({j \in 1..Len(l) : l[j][2] = m})
         IN  <<l[k]>> \o SortByDER(SubSeq(l, 1, k - 1) \o SubSeq(l, k + 1, Len(l)))

\* variant: dev_threshold_tuner breaks on dev_p_tuner's condition
BreakThreshold_kmeans(prm) == prm.oracle_n_spkrs = "True" /\ prm.backend = "kmeans"

\* the break at the end of a tuner's loop body
BreakP(prm) == prm.oracle_n_spkrs = "True" /\ prm.backend = "kmeans"
BreakThreshold(prm) == prm.oracle_n_spkrs = "True"
BreakNN(prm) == prm.oracle_n_spkrs = "True" /\ prm.backend = "kmeans"

\* prange[DER_list.index(min(DER_list))]
TunedPVal(prange, ders) == At(prange, ListIndex(ders, ListMin(ders)))
\* variant: the 0-based list index is returned as n_lambdas
TunedNLambdas_index(ders) == ListIndex(ders, ListMin(ders))

\* DER_list.index(min(DER_list)) + 1
TunedNLambdas(ders) == ListIndex(ders, ListMin(ders)) + 1
\* DER_list.sort(key=lambda x: x[1]); tunned_nn = DER_list[0]; return tunned_nn[0]
TunedNN(ders) == At(At(SortByDER(ders), 0), 0)

-----------------------------------------------------------------------------
(* The main script of experiment.py (lines 551-717) *)

\* variant: output_folder is not tested
check_dirs_missing_two(d) ==
    IF ~d.data_folder THEN <<"data_folder">>
    ELSE IF ~d.manual_annot_folder THEN <<"manual_annot_folder">>
    ELSE <<>>

\* check_dirs: the directories are tested in this order; the first missing one
\* is logged and the process exits
check_dirs_missing(d) ==
    IF ~d.data_folder THEN <<"data_folder">>
    ELSE IF ~d.manual_annot_folder THEN <<"manual_annot_folder">>
    ELSE IF ~d.output_folder THEN <<"output_folder">>
    ELSE <<>>

\* which tuner lines 613-616 start
NNBranch(prm) == IF prm.affinity = "nn" THEN "dev_nn_tuner" ELSE "tune_pval"

\* variant: the first condition without its parentheses
PvalBranch_unparenthesized(prm) ==
    IF (prm.affinity = "cos" /\ prm.backend = "SC") \/ prm.backend = "kmeans"
    THEN "dev_p_tuner"
    ELSE IF prm.backend = "AHC" THEN "dev_threshold_tuner"
    ELSE IF prm.oracle_n_spkrs = "False" THEN "dev_tuner"
    ELSE "final_dev"

\* which tuner lines 621-643 start
PvalBranch(prm) ==
    IF prm.affinity = "cos" /\ (prm.backend = "SC" \/ prm.backend = "kmeans")
    THEN "dev_p_tuner"
    ELSE IF prm.backend = "AHC" THEN "dev_threshold_tuner"
    ELSE IF prm.oracle_n_spkrs = "False" THEN "dev_tuner"
    ELSE "final_dev"

\* entering a tuner's loop: a loop without candidates is over at once
LoopEntry(tuner, n_cand) == IF n_cand = 0 THEN tuner \o "_end" ELSE tuner

\* the history's record of a DER call: the reference it is given and the
\* concatenated file it scores (by: the diarize_dataset call that wrote it)
ScoreRecord(caller, ref, fsys, sys_rttm) ==
    [caller |-> caller, ref |-> ref, sys_rttm |-> sys_rttm,
     by |-> fsys.sys_output[sys_rttm].by]

\* one pass of a tuner's loop body: diarize_dataset on split_type, DER against
\* the dev reference, DER_list.append; entry(d) is what is appended for DER d.
\* The loop ends (pc becomes done) on the break or after the last candidate.
TunerPass(caller, split_type, n_lam, pval, nn, n_cand, brk, done) ==
    \E res \in diarize_dataset(fs, params, ref_rttm, full_csv, split_type,
                               n_lam, pval, nn, Len(runs) + 1) :
        /\ fs' = res.fs
        /\ runs' = Append(runs, RunRecord(caller, res, n_lam, pval, nn))
        /\ IF res.raised
           THEN /\ pc' = "crashed"
                /\ UNCHANGED <<DER_list, scores>>
           ELSE \E DER_ \in 0..MaxDER :
                /\ scores' = Append(scores, ScoreRecord(caller, "dev", res.fs, res.ret[1]))
                /\ DER_list' = Append(DER_list,
                                      IF caller = "dev_nn_tuner"
                                      THEN <<At(range_nn, Len(DER_list)), DER_>>
                                      ELSE DER_)
                /\ pc' = IF brk \/ Len(DER_list) + 1 = n_cand THEN done ELSE pc
        /\ last' = Some(Outcome(res))
        /\ UNCHANGED <<params, dirs, error_log, loaded, full_csv, best_nn,
                       n_lambdas, best_pval, ref_rttm, DER_dev, DER_eval, ctc>>

\* lines 596-597
check_dirs ==
    /\ pc = "check_dirs"
    /\ LET missing == check_dirs_missing(dirs)
       IN  /\ error_log' = error_log \o missing
           /\ pc' = IF missing # <<>> THEN "exited" ELSE "load_pretrained"
    /\ UNCHANGED <<params, dirs, loaded, full_csv, best_nn, n_lambdas, best_pval,
                   DER_list, fs, ref_rttm, runs, scores, DER_dev, DER_eval, last, ctc>>

\* lines 599-604
load_pretrained ==
    /\ pc = "load_pretrained"
    /\ loaded' = TRUE
    /\ pc' = "read_dev_csv"
    /\ UNCHANGED <<params, dirs, error_log, full_csv, best_nn, n_lambdas, best_pval,
                   DER_list, fs, ref_rttm, runs, scores, DER_dev, DER_eval, last, ctc>>

\* lines 606-611
read_dev_csv ==
    /\ pc = "read_dev_csv"
    /\ \E csv \in MainCsvs : full_csv' = csv
    /\ pc' = "tune_nn"
    /\ UNCHANGED <<params, dirs, error_log, loaded, best_nn, n_lambdas, best_pval,
                   DER_list, fs, ref_rttm, runs, scores, DER_dev, DER_eval, last, ctc>>

\* lines 613-616: best_nn = None, and dev_nn_tuner is entered for nn affinity
tune_nn ==
    /\ pc = "tune_nn"
    /\ best_nn' = None
    /\ DER_list' = <<>>
    /\ pc' = NNBranch(params)
    /\ UNCHANGED <<params, dirs, error_log, loaded, full_csv, n_lambdas, best_pval,
                   fs, ref_rttm, runs, scores, DER_dev, DER_eval, last, ctc>>

\* dev_nn_tuner, lines 395-414
dev_nn_tuner_pass ==
    /\ pc = "dev_nn_tuner"
    /\ TunerPass("dev_nn_tuner", "dev", Some(NNTunerLambdas), None,
                 Some(At(range_nn, Len(DER_list))), Len(range_nn),
                 BreakNN(params), "dev_nn_tuner_end")

\* dev_nn_tuner, lines 416-419, and the assignment of line 616
dev_nn_tuner_return ==
    /\ pc = "dev_nn_tuner_end"
    /\ best_nn' = Some(TunedNN(DER_list))
    /\ pc' = "tune_pval"
    /\ DER_list' = <<>>
    /\ UNCHANGED <<params, dirs, error_log, loaded, full_csv, n_lambdas, best_pval, fs,
                   ref_rttm, runs, scores, DER_dev, DER_eval, last, ctc>>

\* lines 618-643: n_lambdas = None, best_pval = None, and one tuner at most
tune_pval ==
    /\ pc = "tune_pval"
    /\ n_lambdas' = None
    /\ best_pval' = None
    /\ DER_list' = <<>>
    /\ pc' = LET tuner == PvalBranch(params)
             IN  IF tuner = "dev_tuner"
                 THEN LoopEntry(tuner, Len(range_lambdas(params)))
                 ELSE tuner
    /\ UNCHANGED <<params, dirs, error_log, loaded, full_csv, best_nn,
                   fs, ref_rttm, runs, scores, DER_dev, DER_eval, last, ctc>>

\* dev_p_tuner, lines 320-340
dev_p_tuner_pass ==
    /\ pc = "dev_p_tuner"
    /\ TunerPass("dev_p_tuner", "dev", None, Some(At(prange_p, Len(DER_list))),
                 Some(DefaultNeighbors), Len(prange_p),
                 BreakP(params), "dev_p_tuner_end")

\* dev_p_tuner, lines 343-345, and the assignment of line 629
dev_p_tuner_return ==
    /\ pc = "dev_p_tuner_end"
    /\ best_pval' = Some(TunedPVal(prange_p, DER_list))
    /\ pc' = "final_dev"
    /\ DER_list' = <<>>
    /\ UNCHANGED <<params, dirs, error_log, loaded, full_csv, best_nn, n_lambdas, fs,
                   ref_rttm, runs, scores, DER_dev, DER_eval, last, ctc>>

\* dev_threshold_tuner, lines 358-376
dev_threshold_tuner_pass ==
    /\ pc = "dev_threshold_tuner"
    /\ TunerPass("dev_threshold_tuner", "dev", None,
                 Some(At(prange_threshold, Len(DER_list))),
                 Some(DefaultNeighbors), Len(prange_threshold),
                 BreakThreshold(params), "dev_threshold_tuner_end")

\* dev_threshold_tuner, lines 379-381, and the assignments of lines 633-634
dev_threshold_tuner_return ==
    /\ pc = "dev_threshold_tuner_end"
    /\ best_pval' = Some(TunedPVal(prange_threshold, DER_list))
    /\ pc' = "final_dev"
    /\ DER_list' = <<>>
    /\ UNCHANGED <<params, dirs, error_log, loaded, full_csv, best_nn, n_lambdas, fs,
                   ref_rttm, runs, scores, DER_dev, DER_eval, last, ctc>>

\* dev_tuner, lines 430-446
dev_tuner_pass ==
    /\ pc = "dev_tuner"
    /\ TunerPass("dev_tuner", "dev", Some(At(range_lambdas(params), Len(DER_list))),
                 None, Some(DefaultNeighbors), Len(range_lambdas(params)),
                 FALSE, "dev_tuner_end")

\* dev_tuner, lines 449-451, and the assignment of line 643; min of an empty
\* DER_list raises ValueError
dev_tuner_return ==
    /\ pc = "dev_tuner_end"
    /\ IF DER_list = <<>>
       THEN pc' = "crashed" /\ UNCHANGED n_lambdas
       ELSE pc' = "final_dev" /\ n_lambdas' = Some(TunedNLambdas(DER_list))
    /\ DER_list' = <<>>
    /\ UNCHANGED <<params, dirs, error_log, loaded, full_csv, best_nn, best_pval,
                   fs, ref_rttm, runs, scores, DER_dev, DER_eval, last, ctc>>

\* variant: the eval run is not given n_neighbors and takes the default
FinalRun_eval_default(caller, split_type, next) ==
    LET nn == IF split_type = "eval" THEN Some(DefaultNeighbors) ELSE best_nn
    IN  \E res \in diarize_dataset(fs, params, ref_rttm, full_csv, split_type,
                                   n_lambdas, best_pval, nn, Len(runs) + 1) :
            /\ fs' = res.fs
            /\ runs' = Append(runs, RunRecord(caller, res, n_lambdas, best_pval, nn))
            /\ pc' = IF res.raised THEN "crashed" ELSE next
            /\ last' = Some(Outcome(res))
            /\ UNCHANGED <<params, dirs, error_log, loaded, full_csv, best_nn, n_lambdas,
                           best_pval, DER_list, ref_rttm, scores, DER_dev, DER_eval, ctc>>

\* a final run of main: diarize_dataset with the tuned values (lines 646-652
\* and 677-683)
FinalRun(caller, split_type, next) ==
    \E res \in diarize_dataset(fs, params, ref_rttm, full_csv, split_type,
                               n_lambdas, best_pval, best_nn, Len(runs) + 1) :
        /\ fs' = res.fs
        /\ runs' = Append(runs, RunRecord(caller, res, n_lambdas, best_pval, best_nn))
        /\ pc' = IF res.raised THEN "crashed" ELSE next
        /\ last' = Some(Outcome(res))
        /\ UNCHANGED <<params, dirs, error_log, loaded, full_csv, best_nn, n_lambdas,
                       best_pval, DER_list, ref_rttm, scores, DER_dev, DER_eval, ctc>>

\* lines 646-652
final_dev ==
    /\ pc = "final_dev"
    /\ FinalRun("main", "dev", "score_dev")

\* lines 655-668: DER on out_boundaries, the file the final dev run returned
score_dev ==
    /\ pc = "score_dev"
    /\ \E d \in 0..MaxDER : DER_dev' = Some(d)
    /\ scores' = Append(scores, ScoreRecord("main", "dev", fs, "dev"))
    /\ pc' = "read_eval_csv"
    /\ UNCHANGED <<params, dirs, error_log, loaded, full_csv, best_nn, n_lambdas,
                   best_pval, DER_list, fs, ref_rttm, runs, DER_eval, last, ctc>>

\* lines 671-675
read_eval_csv ==
    /\ pc = "read_eval_csv"
    /\ \E csv \in MainCsvs : full_csv' = csv
    /\ pc' = "final_eval"
    /\ UNCHANGED <<params, dirs, error_log, loaded, best_nn, n_lambdas, best_pval,
                   DER_list, fs, ref_rttm, runs, scores, DER_dev, DER_eval, last, ctc>>

\* lines 677-683
final_eval ==
    /\ pc = "final_eval"
    /\ FinalRun("main", "eval", "score_eval")

\* lines 686-717: DER on out_boundaries, the file the eval run returned
score_eval ==
    /\ pc = "score_eval"
    /\ \E d \in 0..MaxDER : DER_eval' = Some(d)
    /\ scores' = Append(scores, ScoreRecord("main", "eval", fs, "eval"))
    /\ pc' = "done"
    /\ UNCHANGED <<params, dirs, error_log, loaded, full_csv, best_nn, n_lambdas,
                   best_pval, DER_list, fs, ref_rttm, runs, DER_dev, last, ctc>>

CtcIdle == [pc |-> "idle"]

Init ==
    \* max_num_spkrs is read by dev_tuner alone: it is varied in the
    \* configurations that call dev_tuner and MaxSpkrs in the others
    /\ params \in {prm \in [affinity : Affinities, backend : Backends,
                             oracle_n_spkrs : Oracles, max_num_spkrs : 0..MaxSpkrs] :
                       PvalBranch(prm) = "dev_tuner" \/ prm.max_num_spkrs = MaxSpkrs}
    /\ dirs \in [data_folder : BOOLEAN, manual_annot_folder : BOOLEAN,
                 output_folder : BOOLEAN]
    /\ pc = "check_dirs"
    /\ error_log = <<>>
    /\ loaded = FALSE
    /\ full_csv = <<>>
    /\ best_nn = None
    /\ n_lambdas = None
    /\ best_pval = None
    /\ DER_list = <<>>
    /\ fs = NoFiles
    /\ ref_rttm \in RefFiles
    /\ runs = <<>>
    /\ scores = <<>>
    /\ DER_dev = None
    /\ DER_eval = None
    /\ last = None
    /\ ctc = CtcIdle

Next ==
    \/ check_dirs
    \/ load_pretrained
    \/ read_dev_csv
    \/ tune_nn
    \/ dev_nn_tuner_pass
    \/ dev_nn_tuner_return
    \/ tune_pval
    \/ dev_p_tuner_pass
    \/ dev_p_tuner_return
    \/ dev_threshold_tuner_pass
    \/ dev_threshold_tuner_return
    \/ dev_tuner_pass
    \/ dev_tuner_return
    \/ final_dev
    \/ score_dev
    \/ read_eval_csv
    \/ final_eval
    \/ score_eval

Spec == Init /\ [][Next]_vars

-----------------------------------------------------------------------------
(* diarize_dataset called repeatedly on one csv, with the files of earlier  *)
(* calls (and of an earlier execution of the script) in place               *)

\* the arguments of the calls explored
CallArgs ==
    {[split_type |-> "dev", n_lambdas |-> Some(3), pval |-> Some(5),
      n_neighbors |-> Some(7)],
     [split_type |-> "dev", n_lambdas |-> None, pval |-> None,
      n_neighbors |-> Some(DefaultNeighbors)],
     [split_type |-> "eval", n_lambdas |-> Some(4), pval |-> Some(2),
      n_neighbors |-> None]}

\* the RTTM file an earlier execution wrote for recording "c" of the dev split
StaleRttm ==
    [routine |-> "do_spec_clustering",
     diary_obj |-> [file |-> <<"dev", <<99>>>>, by |-> 0],
     out_rttm_file |-> <<"dev", <<99>>>>, rec_id |-> <<99>>,
     num_spkrs |-> None, pval |-> None, affinity |-> Some("cos"),
     n_neighbors |-> Some(DefaultNeighbors)]

\* files an earlier execution may have left: the statistics of recording "a"
\* of the dev split (by 0: not computed by a call of this execution), or the
\* RTTM file of a recording "c" with the concatenated file that holds it
EarlierFiles ==
    {NoFiles,
     [NoFiles EXCEPT !.stat = (<<"dev", <<97>>>> :>
                                  [file |-> <<"dev", <<97>>>>, by |-> 0])],
     [NoFiles EXCEPT !.rttm = (<<"dev", <<99>>>> :> StaleRttm),
                     !.sys_output = ("dev" :> [by |-> 0, parts |-> <<StaleRttm>>])]}

diarize_call ==
    /\ pc = "diarize"
    /\ Len(runs) < MaxCalls
    /\ \E a \in CallArgs :
       \E res \in diarize_dataset(fs, params, ref_rttm, full_csv, a.split_type,
                                  a.n_lambdas, a.pval, a.n_neighbors, Len(runs) + 1) :
          /\ fs' = res.fs
          /\ runs' = Append(runs, RunRecord("caller", res, a.n_lambdas, a.pval,
                                            a.n_neighbors))
          /\ last' = Some(Outcome(res))
    /\ UNCHANGED <<params, dirs, pc, error_log, loaded, full_csv, best_nn, n_lambdas,
                   best_pval, DER_list, ref_rttm, scores, DER_dev, DER_eval, ctc>>

InitDiarize ==
    /\ params \in [affinity : Affinities, backend : Backends,
                   oracle_n_spkrs : Oracles, max_num_spkrs : {MaxSpkrs}]
    /\ dirs = [data_folder |-> TRUE, manual_annot_folder |-> TRUE,
               output_folder |-> TRUE]
    /\ pc = "diarize"
    /\ error_log = <<>>
    /\ loaded = TRUE
    /\ full_csv \in Csvs
    /\ best_nn = None
    /\ n_lambdas = None
    /\ best_pval = None
    /\ DER_list = <<>>
    /\ fs \in EarlierFiles
    /\ ref_rttm \in RefFiles
    /\ runs = <<>>
    /\ scores = <<>>
    /\ DER_dev = None
    /\ DER_eval = None
    /\ last = None
    /\ ctc = CtcIdle

NextDiarize == diarize_call

SpecDiarize == InitDiarize /\ [][NextDiarize]_vars

-----------------------------------------------------------------------------
(* The CTC example.  ctc.self is the CTCBrain object (its attributes        *)
(* train_loss and per_metrics, None while unset); the other fields are the  *)
(* position of fit and evaluate and the history.  Losses are counted in     *)
(* tenths, rounded down.                                                    *)

\* assert ctc_brain.train_loss < 0.1
AssertTenths == 1

\* variant: per_metrics is created only while it is unset
on_stage_start_once(self, stage) ==
    IF stage # "TRAIN" /\ self.per_metrics = None
    THEN [self EXCEPT !.per_metrics = Some(<<>>)]
    ELSE self

\* CTCBrain.on_stage_start
on_stage_start(self, stage) ==
    IF stage # "TRAIN" THEN [self EXCEPT !.per_metrics = Some(<<>>)] ELSE self

\* CTCBrain.compute_objectives: the entry appended to per_metrics for a batch
\* of a stage other than TRAIN; appending to an unset per_metrics raises
compute_objectives(self, batch_id, stage) ==
    IF stage # "TRAIN"
    THEN IF self.per_metrics = None
         THEN [self |-> self, raised |-> TRUE]
         ELSE [self |-> [self EXCEPT !.per_metrics = Some(Append(@[1], batch_id))],
               raised |-> FALSE]
    ELSE [self |-> self, raised |-> FALSE]

\* variant: train_loss is assigned at the end of every stage
on_stage_end_every_stage(self, stage, stage_loss) ==
    LET after == [self EXCEPT !.train_loss = Some(stage_loss)]
    IN  [self |-> after,
         raised |-> \/ (stage = "VALID" /\ after.train_loss = None)
                    \/ (stage # "TRAIN" /\ after.per_metrics = None),
         summarized |-> IF stage # "TRAIN" THEN after.per_metrics ELSE None]

\* CTCBrain.on_stage_end: train_loss is assigned for TRAIN; VALID reads
\* train_loss and every stage but TRAIN summarizes per_metrics (an unset
\* attribute raises)
on_stage_end(self, stage, stage_loss) ==
    LET after == IF stage = "TRAIN" THEN [self EXCEPT !.train_loss = Some(stage_loss)]
                 ELSE self
    IN  [self |-> after,
         raised |-> \/ (stage = "VALID" /\ after.train_loss = None)
                    \/ (stage # "TRAIN" /\ after.per_metrics = None),
         summarized |-> IF stage # "TRAIN" THEN after.per_metrics ELSE None]

\* the number of batches of a stage: fit trains on train_data and validates on
\* valid_data, evaluate tests on valid_data (lines 60-65)
Batches(c) == IF c.stage = "TRAIN" THEN c.n_train ELSE c.n_valid

\* the order of stages in fit and evaluate: every epoch runs TRAIN, then
\* VALID; evaluate runs TEST after the last epoch
StageAfter(c) ==
    IF c.stage = "TRAIN" THEN [stage |-> "VALID", epoch |-> c.epoch, pc |-> "stage_start"]
    ELSE IF c.stage = "VALID"
         THEN IF c.epoch + 1 < c.n_epochs
              THEN [stage |-> "TRAIN", epoch |-> c.epoch + 1, pc |-> "stage_start"]
              ELSE [stage |-> "TEST", epoch |-> c.epoch, pc |-> "stage_start"]
    ELSE [stage |-> "TEST", epoch |-> c.epoch, pc |-> "assert"]

ctc_on_stage_start ==
    /\ ctc.pc = "stage_start"
    /\ ctc' = [ctc EXCEPT !.self = on_stage_start(@, ctc.stage),
                          !.pc = "batch", !.batch = 0]
    /\ UNCHANGED mainVars

\* one batch of the running stage: fit_batch or evaluate_batch calls
\* compute_objectives
ctc_batch ==
    /\ ctc.pc = "batch"
    /\ ctc.batch < Batches(ctc)
    /\ LET r == compute_objectives(ctc.self, <<ctc.stage, ctc.epoch, ctc.batch>>,
                                   ctc.stage)
       IN  ctc' = [ctc EXCEPT !.self = r.self,
                              !.batch = @ + 1,
                              !.pc = IF r.raised THEN "crashed" ELSE @]
    /\ UNCHANGED mainVars

ctc_on_stage_end ==
    /\ ctc.pc = "batch"
    /\ ctc.batch = Batches(ctc)
    /\ \E stage_loss \in 0..MaxLoss :
       LET r == on_stage_end(ctc.self, ctc.stage, stage_loss)
           to == StageAfter(ctc)
       IN  ctc' = [ctc EXCEPT
                     !.self = r.self,
                     !.ended = Append(@, [stage |-> ctc.stage, epoch |-> ctc.epoch,
                                          stage_loss |-> stage_loss,
                                          summarized |-> r.summarized]),
                     !.stage = IF r.raised THEN @ ELSE to.stage,
                     !.epoch = IF r.raised THEN @ ELSE to.epoch,
                     !.pc = IF r.raised THEN "crashed" ELSE to.pc]
    /\ UNCHANGED mainVars

\* line 68: reading an unset train_loss raises AttributeError
ctc_assert ==
    /\ ctc.pc = "assert"
    /\ ctc' = [ctc EXCEPT !.pc = IF ctc.self.train_loss = None THEN "crashed"
                                 ELSE IF ctc.self.train_loss[1] < AssertTenths
                                      THEN "passed"
                                 ELSE "failed"]
    /\ UNCHANGED mainVars

InitCTC ==
    /\ params = [affinity |-> "cos", backend |-> "SC", oracle_n_spkrs |-> "False",
                 max_num_spkrs |-> MaxSpkrs]
    /\ dirs = [data_folder |-> TRUE, manual_annot_folder |-> TRUE,
               output_folder |-> TRUE]
    /\ pc = "idle"
    /\ error_log = <<>>
    /\ loaded = FALSE
    /\ full_csv = <<>>
    /\ best_nn = None
    /\ n_lambdas = None
    /\ best_pval = None
    /\ DER_list = <<>>
    /\ fs = NoFiles
    /\ ref_rttm \in RefFiles
    /\ runs = <<>>
    /\ scores = <<>>
    /\ DER_dev = None
    /\ DER_eval = None
    /\ last = None
    /\ \E n \in 0..MaxEpochs, nt \in 0..MaxBatches, nv \in 0..MaxBatches :
          ctc = [pc |-> "stage_start", n_epochs |-> n, n_train |-> nt, n_valid |-> nv,
                 stage |-> IF n = 0 THEN "TEST" ELSE "TRAIN", epoch |-> 0, batch |-> 0,
                 self |-> [train_loss |-> None, per_metrics |-> None],
                 ended |-> <<>>]

NextCTC ==
    \/ ctc_on_stage_start
    \/ ctc_batch
    \/ ctc_on_stage_end
    \/ ctc_assert

SpecCTC == InitCTC /\ [][NextCTC]_vars

-----------------------------------------------------------------------------
(* Properties of the tuners and of the main script (specification Spec) *)

\* the diarize_dataset calls made by caller, in order
RunsOf(caller) == SelectSeq(runs, LAMBDA r : r.caller = caller)

\* the DER calls made by caller, in order
ScoresOf(caller) == SelectSeq(scores, LAMBDA r : r.caller = caller)

\* position k holds the minimum of ders and no earlier position does
FirstMinimum(k, ders) ==
    /\ k \in 1..Len(ders)
    /\ \A j \in 1..Len(ders) : ders[k] <= ders[j] /\ (j < k => ders[j] > ders[k])

\* C1: when dev_p_tuner, dev_threshold_tuner or dev_tuner returns, the value it
\* returns is the candidate (p-value 2..14 thousandths, threshold 0..9 tenths,
\* n_lambdas 1..max_num_spkrs) of the earliest of its runs whose DER is the
\* minimum over the runs it made; for dev_tuner that is the candidate itself,
\* one more than its list index.
C1_TunersReturnFirstMinimum ==
    [][/\ pc = "dev_p_tuner_end" =>
            \E k \in 1..Len(DER_list) :
                /\ FirstMinimum(k, DER_list)
                /\ RunsOf("dev_p_tuner")[k].pval = Some(k + 1)
                /\ best_pval' = RunsOf("dev_p_tuner")[k].pval
       /\ pc = "dev_threshold_tuner_end" =>
            \E k \in 1..Len(DER_list) :
                /\ FirstMinimum(k, DER_list)
                /\ RunsOf("dev_threshold_tuner")[k].pval = Some(k - 1)
                /\ best_pval' = RunsOf("dev_threshold_tuner")[k].pval
       /\ (pc = "dev_tuner_end" /\ DER_list # <<>>) =>
            \E k \in 1..Len(DER_list) :
                /\ FirstMinimum(k, DER_list)
                /\ RunsOf("dev_tuner")[k].n_lambdas = Some(k)
                /\ n_lambdas' = RunsOf("dev_tuner")[k].n_lambdas
      ]_vars

\* dev_tuner has made two runs and returned its second candidate
C1_Witness ==
    /\ pc = "final_dev"
    /\ n_lambdas = Some(2)
    /\ Len(RunsOf("dev_tuner")) = 2

\* C2: when dev_nn_tuner returns, it returns the n_neighbors (5..14) of the
\* earliest of its runs whose DER is the minimum over the runs it made; every
\* one of its runs has n_lambdas 4 and pval None.
C2_NNTunerReturnsFirstMinimum ==
    [][pc = "dev_nn_tuner_end" =>
          LET R == RunsOf("dev_nn_tuner")
              ders == [j \in 1..Len(DER_list) |-> DER_list[j][2]]
          IN  /\ Len(R) = Len(DER_list)
              /\ \A j \in 1..Len(R) : /\ R[j].n_lambdas = Some(4)
                                      /\ R[j].pval = None
                                      /\ R[j].n_neighbors = Some(j + 4)
                                      /\ DER_list[j][1] = j + 4
              /\ \E k \in 1..Len(ders) : /\ FirstMinimum(k, ders)
                                         /\ best_nn' = R[k].n_neighbors
      ]_vars

\* dev_nn_tuner has made its ten runs and returned a candidate that is
\* neither the first nor the last
C2_Witness ==
    /\ pc = "tune_pval"
    /\ Len(RunsOf("dev_nn_tuner")) = 10
    /\ best_nn = Some(9)

\* C3: check_dirs exits exactly when one of data_folder, manual_annot_folder,
\* output_folder is missing; it then logs one error, naming the first missing
\* one in that order, and nothing of the pipeline (model loading, tuning,
\* diarization, scoring) has run or runs afterwards; with the three present it
\* returns and changes nothing.
C3_CheckDirs ==
    LET all == dirs.data_folder /\ dirs.manual_annot_folder /\ dirs.output_folder
    IN  /\ pc # "check_dirs" => (pc = "exited" <=> ~all)
        /\ pc = "exited" =>
              /\ ~loaded /\ runs = <<>> /\ scores = <<>> /\ fs = NoFiles
              /\ DER_dev = None /\ DER_eval = None
              /\ Len(error_log) = 1
              /\ error_log[1] = (IF ~dirs.data_folder THEN "data_folder"
                                 ELSE IF ~dirs.manual_annot_folder
                                      THEN "manual_annot_folder"
                                 ELSE "output_folder")
        /\ pc \notin {"check_dirs", "exited"} => error_log = <<>>
        /\ pc = "load_pretrained" =>
              ~loaded /\ runs = <<>> /\ scores = <<>> /\ fs = NoFiles

\* check_dirs has exited on the second directory, the third missing as well
C3_Witness ==
    /\ pc = "exited"
    /\ dirs.data_folder /\ ~dirs.manual_annot_folder /\ ~dirs.output_folder
    /\ error_log = <<"manual_annot_folder">>

\* the tuners, their number of candidates and the condition of their break
Tuners == {"dev_p_tuner", "dev_threshold_tuner", "dev_nn_tuner", "dev_tuner"}

Candidates(t) ==
    IF t = "dev_p_tuner" THEN 13
    ELSE IF t = "dev_tuner" THEN params.max_num_spkrs
    ELSE 10

CutShort(t) ==
    IF t \in {"dev_p_tuner", "dev_nn_tuner"}
    THEN params.oracle_n_spkrs = "True" /\ params.backend = "kmeans"
    ELSE IF t = "dev_threshold_tuner" THEN params.oracle_n_spkrs = "True"
    ELSE FALSE

\* the j-th candidate of tuner t as arguments of diarize_dataset
CandidateRun(t, j, r) ==
    IF t = "dev_p_tuner"
    THEN r.n_lambdas = None /\ r.pval = Some(j + 1) /\ r.n_neighbors = Some(10)
    ELSE IF t = "dev_threshold_tuner"
    THEN r.n_lambdas = None /\ r.pval = Some(j - 1) /\ r.n_neighbors = Some(10)
    ELSE IF t = "dev_nn_tuner"
    THEN r.n_lambdas = Some(4) /\ r.pval = None /\ r.n_neighbors = Some(j + 4)
    ELSE r.n_lambdas = Some(j) /\ r.pval = None /\ r.n_neighbors = Some(10)

\* the position in runs of the j-th call made by caller
RunIndex(caller, j) ==
    CHOOSE i \in 1..Len(runs) :
        /\ runs[i].caller = caller
        /\ Cardinality({h \in 1..i : runs[h].caller = caller}) = j

\* the positions of the main script at which tuning is over
PostTuning == {"final_dev", "score_dev", "read_eval_csv", "final_eval",
               "score_eval", "done"}

\* C5: tuners diarize the dev split only and all their runs come before the
\* final dev run, which comes before the eval run; the eval split is diarized
\* once (when the script completes), by main, with the (n_lambdas, pval,
\* n_neighbors) of the final dev run; the two DERs main reports score the files
\* those two runs wrote.
C5_FinalRuns ==
    LET M == RunsOf("main")
        S == ScoresOf("main")
    IN  /\ \A i \in 1..Len(runs) : runs[i].caller # "main" => runs[i].split_type = "dev"
        /\ \A i, j \in 1..Len(runs) :
              (i < j /\ runs[i].caller = "main") =>
                  /\ runs[j].caller = "main"
                  /\ runs[i].split_type = "dev"
                  /\ runs[j].split_type = "eval"
                  /\ runs[j].n_lambdas = runs[i].n_lambdas
                  /\ runs[j].pval = runs[i].pval
                  /\ runs[j].n_neighbors = runs[i].n_neighbors
        /\ Len(M) <= 2
        /\ \A i \in 1..Len(M) : M[i].split_type = (IF i = 1 THEN "dev" ELSE "eval")
        /\ \A k \in 1..Len(S) :
              /\ S[k].ref = (IF k = 1 THEN "dev" ELSE "eval")
              /\ S[k].sys_rttm = S[k].ref
              /\ S[k].by = RunIndex("main", k)
        /\ DER_dev # None <=> Len(S) >= 1
        /\ DER_eval # None <=> Len(S) >= 2
        /\ pc = "done" => Len(M) = 2 /\ Len(S) = 2

\* the script has completed after a full p-value search
C5_Witness ==
    /\ pc = "done"
    /\ Len(runs) = 15
    /\ runs[15].split_type = "eval"
    /\ runs[15].pval = Some(5)
    /\ scores[15].by = 15

\* C7: a tuner runs diarize_dataset and then DER once per candidate, in
\* ascending order of the candidates; when its loop is over it has made 13
\* (dev_p_tuner), 10 (dev_threshold_tuner, dev_nn_tuner) or max_num_spkrs
\* (dev_tuner) runs, unless it is cut short after one run: dev_p_tuner and
\* dev_nn_tuner when oracle_n_spkrs is True and the backend is kmeans,
\* dev_threshold_tuner when oracle_n_spkrs is True, dev_tuner never; a tuner
\* cut short returns its first candidate.
C7_TunerRuns ==
    /\ \A t \in Tuners :
         LET R == RunsOf(t)
             S == ScoresOf(t)
         IN  /\ \A j \in 1..Len(R) : CandidateRun(t, j, R[j])
             /\ Len(S) = (IF R # <<>> /\ R[Len(R)].raised THEN Len(R) - 1 ELSE Len(R))
             /\ \A j \in 1..Len(S) : S[j].by = RunIndex(t, j) /\ S[j].ref = "dev"
             /\ pc = t \o "_end" => Len(R) = (IF CutShort(t) THEN 1 ELSE Candidates(t))
             /\ Len(R) <= Candidates(t)
             /\ (CutShort(t) /\ pc # "crashed") => Len(R) <= 1
    /\ (pc \in PostTuning /\ CutShort("dev_p_tuner") /\ RunsOf("dev_p_tuner") # <<>>)
          => best_pval = Some(2)
    /\ (pc \in PostTuning /\ CutShort("dev_threshold_tuner")
           /\ RunsOf("dev_threshold_tuner") # <<>>)
          => best_pval = Some(0)
    /\ (pc \in PostTuning /\ CutShort("dev_nn_tuner") /\ RunsOf("dev_nn_tuner") # <<>>)
          => best_nn = Some(5)

\* dev_threshold_tuner has been cut short after one run with the AHC backend
C7_Witness ==
    /\ pc = "dev_threshold_tuner_end"
    /\ params.backend = "AHC"
    /\ params.oracle_n_spkrs = "True"
    /\ Len(RunsOf("dev_threshold_tuner")) = 1
    /\ Len(DER_list) = 1

\* the tuners the main script is to call for the parameters
ExpectedTuners ==
    (IF params.affinity = "nn" THEN {"dev_nn_tuner"} ELSE {})
    \cup
    (IF params.affinity = "cos" /\ params.backend \in {"SC", "kmeans"}
     THEN {"dev_p_tuner"}
     ELSE IF params.backend = "AHC" THEN {"dev_threshold_tuner"}
     ELSE IF params.oracle_n_spkrs = "False" THEN {"dev_tuner"}
     ELSE {})

\* C8: dev_nn_tuner runs iff affinity is nn (n_neighbors stays None otherwise)
\* and runs first; then dev_p_tuner runs iff affinity is cos and the backend is
\* SC or kmeans, otherwise dev_threshold_tuner iff the backend is AHC (its
\* result becomes pval), otherwise dev_tuner iff oracle_n_spkrs is False; so at
\* most one of the three runs, and at most one of pval and n_lambdas is set in
\* the final runs.
C8_TunerSelection ==
    LET called == {runs[i].caller : i \in 1..Len(runs)} \ {"main"}
    IN  /\ called \subseteq ExpectedTuners
        /\ \A t \in Tuners : pc \in {t, t \o "_end"} => t \in ExpectedTuners
        /\ pc \in PostTuning => called = ExpectedTuners
        /\ Cardinality(called \ {"dev_nn_tuner"}) <= 1
        /\ \A i, j \in 1..Len(runs) :
              (i < j /\ runs[j].caller = "dev_nn_tuner") => runs[i].caller = "dev_nn_tuner"
        /\ pc \in PostTuning =>
              /\ best_nn # None <=> params.affinity = "nn"
              /\ best_pval # None <=>
                    ExpectedTuners \cap {"dev_p_tuner", "dev_threshold_tuner"} # {}
              /\ n_lambdas # None <=> "dev_tuner" \in ExpectedTuners
        /\ \A i \in 1..Len(runs) :
              runs[i].caller = "main" =>
                  /\ runs[i].pval = None \/ runs[i].n_lambdas = None
                  /\ runs[i].n_neighbors = None <=> params.affinity # "nn"

\* the script has completed with dev_nn_tuner and then dev_threshold_tuner
C8_Witness ==
    /\ pc = "done"
    /\ params.affinity = "nn"
    /\ params.backend = "AHC"
    /\ {runs[i].caller : i \in 1..Len(runs)}
          = {"dev_nn_tuner", "dev_threshold_tuner", "main"}
    /\ runs[Len(runs)].pval # None
    /\ runs[Len(runs)].n_neighbors # None

-----------------------------------------------------------------------------
(* Properties of diarize_dataset (specification SpecDiarize) *)

\* the runs that computed the embeddings stored in stat_file
Extractions(rs, stat_file) == {j \in 1..Len(rs) : stat_file \in rs[j].extracted}

\* C4: a diarize_dataset call computes and saves the embeddings of a recording
\* exactly when its statistics file is missing; otherwise the loader is not
\* iterated, the file is left as it is and the object used is the stored one.
\* So over successive calls the embeddings of a recording of a split are
\* computed at most once, by the first call on that split, and every file once
\* written keeps its content.
C4_EmbeddingsOnce ==
    [][Len(runs') > Len(runs) =>
          LET o == last'[1]
          IN  /\ \A j \in 1..Len(o.events) :
                    LET e == o.events[j]
                        f == <<o.split_type, e.rec_id>>
                    IN  /\ e.extracted <=> f \notin DOMAIN fs.stat
                        /\ f \in DOMAIN fs'.stat
                        /\ e.diary_obj = fs'.stat[f]
                        /\ e.extracted => e.diary_obj.by = Len(runs')
                        /\ ~e.extracted => e.diary_obj = fs.stat[f]
              /\ \A f \in DOMAIN fs.stat :
                    f \in DOMAIN fs'.stat /\ fs'.stat[f] = fs.stat[f]
              /\ \A f \in DOMAIN fs'.stat :
                    /\ Cardinality(Extractions(runs', f)) <= 1
                    /\ \A j \in Extractions(runs', f) :
                          \A i \in 1..(j - 1) : runs'[i].split_type # f[1]
      ]_vars

\* a second call on the dev split finds the files of the first and computes
\* nothing
C4_Witness ==
    /\ Len(runs) = 2
    /\ runs[1].split_type = "dev"
    /\ runs[2].split_type = "dev"
    /\ Cardinality(runs[1].extracted) = 2
    /\ runs[2].extracted = {}
    /\ Len(last[1].events) = 2
    /\ \A j \in 1..2 : last[1].events[j].diary_obj.by = 1

\* the part of s before its first "_" (all of s without one)
BeforeUnderscore(s) ==
    LET n == CHOOSE n \in 0..Len(s) :
                 /\ \A i \in 1..n : s[i] # 95
                 /\ n = Len(s) \/ s[n + 1] = 95
    IN  SubSeq(s, 1, n)

\* s without its trailing whitespace
Stripped(s) ==
    LET n == CHOOSE n \in 0..Len(s) :
                 /\ n = 0 \/ s[n] \notin {32, 9}
                 /\ \A i \in (n + 1)..Len(s) : s[i] \in {32, 9}
    IN  SubSeq(s, 1, n)

\* the latest call has processed exactly the recordings ids, each once, in
\* ascending order, counting them 1..N
ProcessedInOrder(ids) ==
    last # None =>
        LET o == last[1]
        IN  /\ o.N = Cardinality(ids)
            /\ Len(o.events) = o.N
            /\ {o.events[j].rec_id : j \in 1..Len(o.events)} = ids
            /\ \A j \in 1..Len(o.events) : o.events[j].i = j
            /\ \A j, k \in 1..Len(o.events) :
                  j < k => StrLess(o.events[j].rec_id, o.events[k].rec_id)

\* C9 as stated: the recording ID of a row is the part of its first column
\* before the first "_"; a call processes every distinct ID of the rows after
\* the first exactly once, in ascending order, with i running from 1 to N.
C9_Original ==
    ProcessedInOrder({BeforeUnderscore(full_csv[r]) : r \in 2..Len(full_csv)})

\* C9 (amended): the recording ID of a row is the part before the first "_" of
\* its first column without its trailing whitespace; a call processes every
\* distinct ID of the rows after the first exactly once, in ascending order,
\* with i running from 1 to N.
C9_RecordingsInOrder ==
    ProcessedInOrder({BeforeUnderscore(Stripped(full_csv[r])) : r \in 2..Len(full_csv)})

\* a call on the rows "ID", "b_0", "a " has processed "a" and then "b"
C9_Witness ==
    /\ full_csv = <<<<73, 68>>, <<98, 95, 48>>, <<97, 32>>>>
    /\ last # None
    /\ last[1].N = 2
    /\ Len(last[1].events) = 2
    /\ last[1].events[1].rec_id = <<97>>
    /\ last[1].events[2].rec_id = <<98>>

\* C10: the number of speakers handed to the clustering routine of a recording
\* is the result of get_oracle_num_spkrs on the SPKR-INFO lines of the split's
\* reference RTTM when oracle_n_spkrs is True (whatever the affinity and
\* n_lambdas), else n_lambdas when the affinity is nn, else None; the
\* reference RTTM is read exactly when oracle_n_spkrs is True.
C10_NumSpkrs ==
    last # None =>
        LET o == last[1]
            a == runs[Len(runs)]
            lines == ref_rttm[o.split_type]
            info == SelectSeq(lines, LAMBDA x : x.type = "SPKR-INFO")
        IN  /\ o.read_ref <=> params.oracle_n_spkrs = "True"
            /\ \A j \in 1..Len(o.events) :
                  LET e == o.events[j]
                      n == IF params.oracle_n_spkrs = "True"
                           THEN Some([fn |-> "get_oracle_num_spkrs",
                                      rec_id |-> e.rec_id, spkr_info |-> info])
                           ELSE IF params.affinity = "nn" THEN a.n_lambdas
                           ELSE None
                  IN  /\ e.num_spkrs = n
                      /\ \A c \in 1..Len(e.calls) : e.calls[c].num_spkrs = n

\* spectral clustering with nn affinity, n_lambdas 3 and the oracle number of
\* speakers: the routine got the oracle's number
C10_Witness ==
    /\ last # None
    /\ params.oracle_n_spkrs = "True"
    /\ params.affinity = "nn"
    /\ params.backend = "SC"
    /\ runs[Len(runs)].n_lambdas = Some(3)
    /\ Len(last[1].events) = 2
    /\ Len(last[1].events[1].calls) = 1
    /\ last[1].events[1].calls[1].num_spkrs =
          Some(get_oracle_num_spkrs(last[1].events[1].rec_id,
                                    SpkrInfo(ref_rttm[last[1].split_type])))

\* the routine the backend names
RoutineOf(backend) ==
    IF backend = "kmeans" THEN "do_kmeans_clustering"
    ELSE IF backend = "SC" THEN "do_spec_clustering"
    ELSE "do_AHC"

\* C11: for every recording a diarize_dataset call processes, exactly one
\* clustering routine is invoked, the one params["backend"] names
\* (do_kmeans_clustering for kmeans, do_spec_clustering with the affinity and
\* n_neighbors for SC, do_AHC with pval as the threshold for AHC), on the
\* embeddings obtained for that recording, writing to the recording's own
\* RTTM file of the split.
C11_ExactlyOneRoutine ==
    last # None =>
        LET o == last[1]
            a == runs[Len(runs)]
        IN  \A j \in 1..Len(o.events) :
               LET e == o.events[j]
               IN  /\ Len(e.calls) = 1
                   /\ e.calls[1].routine = RoutineOf(params.backend)
                   /\ e.calls[1].diary_obj = e.diary_obj
                   /\ e.calls[1].diary_obj = fs.stat[<<o.split_type, e.rec_id>>]
                   /\ e.calls[1].rec_id = e.rec_id
                   /\ e.calls[1].out_rttm_file = <<o.split_type, e.rec_id>>
                   /\ e.calls[1].pval = a.pval
                   /\ params.backend = "SC" =>
                         /\ e.calls[1].affinity = Some(params.affinity)
                         /\ e.calls[1].n_neighbors = a.n_neighbors


\* how many times content occurs in the concatenated file
Occurrences(parts, content) ==
    Cardinality({j \in 1..Len(parts) : parts[j] = content})

\* C12: when a diarize_dataset call returns, the concatenated file of its
\* split has been rebuilt by that call and holds the content of every other
\* RTTM file of the split's directory exactly once and nothing else (nothing
\* of what it held before); so it holds the RTTM written for each recording of
\* the call once, it does not grow when the call is repeated on the same
\* files, and the concatenated file of the other split is left alone.
C12_ConcatenatedRebuilt ==
    [][(Len(runs') > Len(runs) /\ last'[1].ret # None) =>
          LET o == last'[1]
              s == o.split_type
              files == {f \in DOMAIN fs'.rttm : f[1] = s}
              before == {f \in DOMAIN fs.rttm : f[1] = s}
          IN  /\ s \in DOMAIN fs'.sys_output
              /\ fs'.sys_output[s].by = Len(runs')
              /\ Len(fs'.sys_output[s].parts) = Cardinality(files)
              /\ \A f \in files :
                    Occurrences(fs'.sys_output[s].parts, fs'.rttm[f]) = 1
              /\ \A j \in 1..Len(o.events) :
                    \A c \in 1..Len(o.events[j].calls) :
                       Occurrences(fs'.sys_output[s].parts, o.events[j].calls[c]) = 1
              /\ (s \in DOMAIN fs.sys_output /\ before = files) =>
                    Len(fs'.sys_output[s].parts) = Len(fs.sys_output[s].parts)
              /\ \A t \in DOMAIN fs.sys_output :
                    t # s => (t \in DOMAIN fs'.sys_output
                              /\ fs'.sys_output[t] = fs.sys_output[t])
      ]_vars

\* the second call on the dev split has rebuilt the concatenated file of the
\* first: it holds the files of the two recordings and the one left by an
\* earlier execution
C12_Witness ==
    /\ Len(runs) = 2
    /\ runs[1].split_type = "dev"
    /\ runs[2].split_type = "dev"
    /\ last[1].ret = Some("dev")
    /\ Len(last[1].events) = 2
    /\ <<"dev", <<99>>>> \in DOMAIN fs.rttm
    /\ fs.sys_output["dev"].by = 2
    /\ Len(fs.sys_output["dev"].parts) = 3


\* C14: a diarize_dataset call returns the path of the concatenated RTTM file
\* of its split whatever full_csv it is given; with a full_csv of only the
\* header row, or of no row, it raises nothing and leaves the concatenated
\* file created and empty.
C14_ReturnsConcatenatedFile ==
    last # None =>
        LET o == last[1]
        IN  /\ ~o.raised
            /\ o.ret = Some(o.split_type)
            /\ o.split_type \in DOMAIN fs.sys_output
            /\ fs.sys_output[o.split_type].by = Len(runs)
            /\ (Len(full_csv) <= 1 /\ {f \in DOMAIN fs.rttm : f[1] = o.split_type} = {}) =>
                  fs.sys_output[o.split_type].parts = <<>>


-----------------------------------------------------------------------------
(* Properties of the CTC example (specification SpecCTC) *)

\* the TRAIN stages that have ended, in order
TrainEnds == SelectSeq(ctc.ended, LAMBDA x : x.stage = "TRAIN")

\* C6: train_loss is the stage loss given to on_stage_end for the latest TRAIN
\* stage and is unset before the first; the end of a VALID or TEST stage leaves
\* it as it is.  With N_epochs >= 1, fit and evaluate raise nothing (train_loss
\* is set whenever the end of VALID reads it), and the assertion is made on the
\* loss of the TRAIN stage of the last epoch.
C6_TrainLoss ==
    LET T == TrainEnds
    IN  /\ ctc.self.train_loss =
              (IF T = <<>> THEN None ELSE Some(T[Len(T)].stage_loss))
        /\ ctc.n_epochs >= 1 => ctc.pc # "crashed"
        /\ (ctc.n_epochs >= 1 /\ ctc.pc \in {"assert", "passed", "failed"}) =>
              /\ Len(T) = ctc.n_epochs
              /\ T[Len(T)].epoch = ctc.n_epochs - 1
              /\ ctc.ended[Len(ctc.ended)].stage = "TEST"
              /\ ctc.pc = "passed" => T[Len(T)].stage_loss < 1
              /\ ctc.pc = "failed" => T[Len(T)].stage_loss >= 1

\* two epochs and evaluate are over: the last TRAIN loss was 0, the VALID and
\* TEST losses after it were not, and the assertion passed
C6_Witness ==
    /\ ctc.pc = "passed"
    /\ ctc.n_epochs = 2
    /\ Len(ctc.ended) = 5
    /\ ctc.ended[1].stage_loss = 2
    /\ ctc.ended[3].stage_loss = 0
    /\ ctc.ended[4].stage_loss = 2
    /\ ctc.ended[5].stage_loss = 1
    /\ ctc.self.train_loss = Some(0)

\* the stages other than TRAIN that have ended, in order
EvalEnds == SelectSeq(ctc.ended, LAMBDA x : x.stage # "TRAIN")

\* the first n batches of a stage
BatchesOf(stage, epoch, n) == [b \in 1..n |-> <<stage, epoch, b - 1>>]

\* C13: per_metrics is a fresh object from the start of every stage other
\* than TRAIN and only the batches of such a stage are appended to it: while a
\* VALID or TEST stage runs it holds exactly the batches of that stage so far,
\* the error rate summarized at the end of the stage covers exactly the
\* batches of that stage, a TRAIN stage leaves it as the last VALID or TEST
\* stage left it, and it is never used while unset.
C13_PerMetrics ==
    /\ \A j \in 1..Len(ctc.ended) :
          LET e == ctc.ended[j]
          IN  e.summarized = (IF e.stage = "TRAIN" THEN None
                              ELSE Some(BatchesOf(e.stage, e.epoch, ctc.n_valid)))
    /\ (ctc.pc = "batch" /\ ctc.stage # "TRAIN") =>
          ctc.self.per_metrics = Some(BatchesOf(ctc.stage, ctc.epoch, ctc.batch))
    /\ (ctc.pc = "batch" /\ ctc.stage = "TRAIN") =>
          ctc.self.per_metrics =
              (IF EvalEnds = <<>> THEN None
               ELSE EvalEnds[Len(EvalEnds)].summarized)
    /\ ctc.pc = "crashed" => (ctc.n_epochs = 0 /\ Len(ctc.ended) = 1)

\* the TEST stage after two epochs has ended: its summary covers its own two
\* batches, after two VALID stages of two batches each
C13_Witness ==
    /\ ctc.n_epochs = 2
    /\ ctc.n_train = 2
    /\ ctc.n_valid = 2
    /\ Len(ctc.ended) = 5
    /\ ctc.ended[2].summarized = Some(<<<<"VALID", 0, 0>>, <<"VALID", 0, 1>>>>)
    /\ ctc.ended[4].summarized = Some(<<<<"VALID", 1, 0>>, <<"VALID", 1, 1>>>>)
    /\ ctc.ended[5].summarized = Some(<<<<"TEST", 1, 0>>, <<"TEST", 1, 1>>>>)

====
